---- MODULE Spec2Model ----
(***************************************************************************)
(* Model of src/main.rs: the command line driver `main`, the memoizing     *)
(* recursive expansion SharedMake::make_target, the task body it spawns    *)
(* for each target, and make_individual_dependency, which runs `make` for  *)
(* one target.                                                             *)
(*                                                                         *)
(* The main thread runs main() and the whole recursive expansion; every    *)
(* spawned task runs on the worker threads of the task runtime, concurrently*)
(* with the main thread from the moment it is spawned.                     *)
(*                                                                         *)
(* What the model takes from the task runtime (async-std) and from Rust:   *)
(*  - task::spawn hands the task to a fixed pool of worker threads; the    *)
(*    blocking Command::output() keeps its worker until `make` exits, and  *)
(*    a task suspended in join_all holds no worker;                        *)
(*  - a panic in a spawned task ends that task only; polling the handle    *)
(*    of a task that panicked panics in the poller ("task has failed");    *)
(*  - a panic in main ends the process with code 101, and unbounded        *)
(*    recursion on the main thread ends it with a stack overflow abort.    *)
(***************************************************************************)
EXTENDS Integers, Sequences, FiniteSets, TLC

\* ------------------------------------------------------------------------
\* Bounds
\* ------------------------------------------------------------------------

\* Number of frames of make_target the main thread's stack can hold.
MaxStack == 6

\* Largest number of worker threads of the task runtime that run spawned
\* tasks; the runtime sizes its pool from the machine, from one thread up. A
\* worker is held by a task for as long as Command::output() blocks in it.
NumWorkers == 2

\* ------------------------------------------------------------------------
\* Values
\* ------------------------------------------------------------------------

Names == {"a", "b", "c", "d", "e", "z"}

NoTarget == "<none>"      \* options.target = None
NoTask == 0               \* a name with no entry in SharedMake::futures
Alive == -1               \* the process has not exited yet

ExitOk == 0               \* exit(0), or main returning
ExitError == 1            \* exit(1)
ExitPanic == 101          \* a panic unwinding out of main
ExitOverflow == 134       \* the main thread overflowed its stack (abort)

\* A TargetGraph: the keys in insertion order and each key's dependency list.
G(keys, deps) == [keys |-> keys, deps |-> deps]

GEmpty == G(<< >>, [n \in {} |-> << >>])
GSingle == G(<<"a">>, [n \in {"a"} |-> << >>])
GChain == G(<<"a", "b", "c">>,
            [n \in {"a", "b", "c"} |->
                CASE n = "a" -> <<"b">> [] n = "b" -> <<"c">> [] OTHER -> << >>])
GDiamond == G(<<"a", "b", "c", "d">>,
              [n \in {"a", "b", "c", "d"} |->
                  CASE n = "a" -> <<"b", "c">>
                    [] n = "b" -> <<"d">>
                    [] n = "c" -> <<"d">>
                    [] OTHER -> << >>])
GDup == G(<<"a", "b">>,
          [n \in {"a", "b"} |-> IF n = "a" THEN <<"b", "b">> ELSE << >>])
GFan == G(<<"a", "b", "c", "d">>,
          [n \in {"a", "b", "c", "d"} |->
              IF n = "a" THEN <<"b", "c", "d">> ELSE << >>])
GWide == G(<<"a", "b", "c", "d", "e">>,
           [n \in {"a", "b", "c", "d", "e"} |->
               IF n = "a" THEN <<"b", "c", "d", "e">> ELSE << >>])
GTwoChains == G(<<"a", "b", "c", "d", "e">>,
                [n \in {"a", "b", "c", "d", "e"} |->
                    CASE n = "a" -> <<"b", "c">>
                      [] n = "b" -> <<"d">>
                      [] n = "c" -> <<"e", "d">>
                      [] OTHER -> << >>])
GDepth == G(<<"a", "b", "c">>,
            [n \in {"a", "b", "c"} |->
                CASE n = "a" -> <<"b", "c">> [] n = "b" -> <<"c">> [] OTHER -> << >>])
GDepthRev == G(<<"a", "b", "c">>,
               [n \in {"a", "b", "c"} |->
                   CASE n = "a" -> <<"c", "b">> [] n = "b" -> <<"c">> [] OTHER -> << >>])
GDepthMid == G(<<"a", "b", "c", "d", "e">>,
               [n \in {"a", "b", "c", "d", "e"} |->
                   CASE n = "a" -> <<"b", "c", "d">>
                     [] n = "b" -> <<"c">>
                     [] n = "d" -> <<"e">>
                     [] n = "e" -> <<"c">>
                     [] OTHER -> << >>])
GUnreach == G(<<"b", "a", "c">>,
              [n \in {"a", "b", "c"} |-> IF n = "b" THEN <<"c">> ELSE << >>])
GSelf == G(<<"a">>, [n \in {"a"} |-> <<"a">>])
GCycle == G(<<"a", "b">>,
            [n \in {"a", "b"} |-> IF n = "a" THEN <<"b">> ELSE <<"a">>])
GLead == G(<<"a", "b", "c", "d">>,
           [n \in {"a", "b", "c", "d"} |->
               CASE n = "a" -> <<"d", "b">>
                 [] n = "b" -> <<"c">>
                 [] n = "c" -> <<"b">>
                 [] OTHER -> << >>])
GMissing == G(<<"a", "b", "c">>,
              [n \in {"a", "b", "c"} |->
                  CASE n = "a" -> <<"b", "c">> [] n = "c" -> <<"z">> [] OTHER -> << >>])

Graphs == {GEmpty, GSingle, GChain, GDiamond, GDup, GFan, GWide, GTwoChains,
           GDepth, GDepthRev, GDepthMid, GUnreach, GSelf, GCycle, GLead, GMissing}

\* target_graph.0.keys() as a set, and contains_key
Keys(g) == {g.keys[i] : i \in 1..Len(g.keys)}
Range(s) == {s[i] : i \in 1..Len(s)}

VARIABLES
    target_graph,   \* the parsed TargetGraph
    workers,        \* number of worker threads of the task runtime
    options,        \* [print_graph, target] from get_options()
    pc,             \* position of main
    exit_code,      \* Alive, or the code the process exited with
    stdout,         \* what main printed: "", "graph" or "built"
    stderr,         \* the diagnostic written, or ""
    built,          \* the N of "Built N targets"
    main_target_name,
    stack,          \* frames of make_target on the main thread, innermost last
    root_handle,    \* the handle make_target(main_target_name, 0) returned
    futures,        \* SharedMake::futures: name -> task id, NoTask if absent
    tasks,          \* spawned tasks, by id: the state behind each JoinHandle
    started,        \* name -> number of calls of make_individual_dependency
    returned        \* name -> number of returns of make_individual_dependency

vars == <<target_graph, workers, options, pc, exit_code, stdout, stderr, built,
          main_target_name, stack, root_handle, futures, tasks, started,
          returned>>

\* what the spawned tasks never change
mainVars == <<target_graph, workers, options, pc, exit_code, stdout, stderr, built,
              main_target_name, stack, root_handle, futures>>

\* ------------------------------------------------------------------------
\* Helpers
\* ------------------------------------------------------------------------

ProcessAlive == exit_code = Alive

\* self.futures.get(target_name).is_some()
Cached(name) == futures[name] # NoTask

\* Mutant: the root's own entry is not counted
FuturesLenWithoutRoot == Cardinality({n \in Names : futures[n] # NoTask}) - 1

\* shared_make.futures.len()
FuturesLen == Cardinality({n \in Names : Cached(n)})

TaskIds == 1..Len(tasks)

\* Mutant: a task that waits for its dependency handles keeps a worker too
\* (a blocking wait inside the task)
BusyWithWaiters ==
    Cardinality({i \in 1..Len(tasks) :
        \/ tasks[i].state = "Running"
        \/ /\ tasks[i].state = "Queued"
           /\ \E k \in 1..Len(tasks[i].dependency_handles) :
                 tasks[tasks[i].dependency_handles[k]].state
                    \in {"Queued", "Running"}})

\* Number of worker threads blocked in Command::output()
Busy == Cardinality({i \in TaskIds : tasks[i].state = "Running"})

\* Mutant: recipes are run one at a time
NoRecipeRunning == Busy = 0

\* a worker thread is available to poll a task
WorkerFree == Busy < workers

\* join_all(dependency_handles) is ready: every handle's task has finished
AllResolved(i) ==
    \A k \in 1..Len(tasks[i].dependency_handles) :
        tasks[tasks[i].dependency_handles[k]].state = "Completed"

\* some awaited handle belongs to a task that panicked
SomeFailed(i) ==
    \E k \in 1..Len(tasks[i].dependency_handles) :
        tasks[tasks[i].dependency_handles[k]].state = "Failed"

Top == stack[Len(stack)]

\* The call of make_target the main thread is about to make: the root call
\* of line 69, or the next element of the `dependencies.iter().map(..)` of
\* the innermost frame (lines 98-101).
HasCall ==
    /\ pc = "expand"
    /\ IF stack = << >> THEN TRUE ELSE Top.next <= Len(Top.dependencies)

CallName ==
    IF stack = << >> THEN main_target_name ELSE Top.dependencies[Top.next]

\* Mutant: the depth is passed on unchanged
CallDepthSame == IF stack = << >> THEN 0 ELSE Top.depth

CallDepth == IF stack = << >> THEN 0 ELSE Top.depth + 1

\* A call of make_target returns `handle` to its caller: the map closure
\* collects it into dependency_handles of the frame below, or, for the root
\* call, main passes it to block_on.
Return(stk, handle) ==
    IF stk = << >>
    THEN /\ stack' = << >>
         /\ root_handle' = handle
         /\ pc' = "block_on"
    ELSE /\ stack' = [stk EXCEPT ![Len(stk)] =
                        [@ EXCEPT !.next = @ + 1,
                                  !.dependency_handles = Append(@, handle)]]
         /\ root_handle' = root_handle
         /\ pc' = pc

\* ------------------------------------------------------------------------
\* Initial state
\* ------------------------------------------------------------------------

Init ==
    /\ target_graph \in Graphs
    /\ workers \in 1..NumWorkers
    /\ options \in [print_graph : BOOLEAN, target : Names \cup {NoTarget}]
    /\ pc = "read"
    /\ exit_code = Alive
    /\ stdout = ""
    /\ stderr = ""
    /\ built = 0
    /\ main_target_name = NoTarget
    /\ stack = << >>
    /\ root_handle = NoTask
    /\ futures = [n \in Names |-> NoTask]
    /\ tasks = << >>
    /\ started = [n \in Names |-> 0]
    /\ returned = [n \in Names |-> 0]

\* ------------------------------------------------------------------------
\* main (lines 21-75)
\* ------------------------------------------------------------------------

Exit(code, out, err) ==
    /\ exit_code' = code
    /\ stdout' = out
    /\ stderr' = err
    /\ pc' = "exited"

\* lines 26-29: read_to_string fails
ReadFails ==
    /\ ProcessAlive /\ pc = "read"
    /\ Exit(ExitError, stdout, "Could not read Makefile")
    /\ UNCHANGED <<target_graph, workers, options, built, main_target_name, stack,
                   root_handle, futures, tasks, started, returned>>

\* lines 30-31: TargetGraph::try_from fails and expect panics
ParseFails ==
    /\ ProcessAlive /\ pc = "read"
    /\ Exit(ExitPanic, stdout, "Could not parse Makefile")
    /\ UNCHANGED <<target_graph, workers, options, built, main_target_name, stack,
                   root_handle, futures, tasks, started, returned>>

\* lines 26-31: the file is read and parsed into target_graph
ReadMakefile ==
    /\ ProcessAlive /\ pc = "read"
    /\ pc' = "parsed"
    /\ UNCHANGED <<target_graph, workers, options, exit_code, stdout, stderr, built,
                   main_target_name, stack, root_handle, futures, tasks,
                   started, returned>>

\* lines 33-39
PrintGraph ==
    /\ ProcessAlive /\ pc = "parsed"
    /\ options.print_graph
    /\ Exit(ExitOk, "graph", stderr)
    /\ UNCHANGED <<target_graph, workers, options, built, main_target_name, stack,
                   root_handle, futures, tasks, started, returned>>

\* Mutant: the missing default target is reported but exits with 0
NoDefaultTargetExitsOk ==
    /\ ProcessAlive /\ pc = "parsed"
    /\ ~options.print_graph
    /\ target_graph.keys = << >>
    /\ Exit(ExitOk, stdout,
            "No target specified and no default target available")
    /\ UNCHANGED <<target_graph, workers, options, built, main_target_name, stack,
                   root_handle, futures, tasks, started, returned>>

\* lines 41-47: the graph has no first key
NoDefaultTarget ==
    /\ ProcessAlive /\ pc = "parsed"
    /\ ~options.print_graph
    /\ target_graph.keys = << >>
    /\ Exit(ExitError, stdout,
            "No target specified and no default target available")
    /\ UNCHANGED <<target_graph, workers, options, built, main_target_name, stack,
                   root_handle, futures, tasks, started, returned>>

\* Mutant: the requested target is validated before --print-graph is handled
UnknownTargetBeforePrint ==
    /\ ProcessAlive /\ pc = "parsed"
    /\ target_graph.keys # << >>
    /\ options.target # NoTarget
    /\ options.target \notin Keys(target_graph)
    /\ Exit(ExitError, stdout, "Unknown target specified")
    /\ UNCHANGED <<target_graph, workers, options, built, main_target_name, stack,
                   root_handle, futures, tasks, started, returned>>

\* lines 48-54: --target names no key of the graph
UnknownTarget ==
    /\ ProcessAlive /\ pc = "parsed"
    /\ ~options.print_graph
    /\ target_graph.keys # << >>
    /\ options.target # NoTarget
    /\ options.target \notin Keys(target_graph)
    /\ Exit(ExitError, stdout, "Unknown target specified")
    /\ UNCHANGED <<target_graph, workers, options, built, main_target_name, stack,
                   root_handle, futures, tasks, started, returned>>

\* Mutant: --target is used without the contains_key check
SelectTargetUnchecked ==
    /\ ProcessAlive /\ pc = "parsed"
    /\ ~options.print_graph
    /\ target_graph.keys # << >>
    /\ main_target_name' = IF options.target # NoTarget
                           THEN options.target
                           ELSE target_graph.keys[1]
    /\ pc' = "expand"
    /\ UNCHANGED <<target_graph, workers, options, exit_code, stdout, stderr, built,
                   stack, root_handle, futures, tasks, started, returned>>

\* lines 41-67: main_target_name is chosen and SharedMake is constructed
SelectTarget ==
    /\ ProcessAlive /\ pc = "parsed"
    /\ ~options.print_graph
    /\ target_graph.keys # << >>
    /\ options.target # NoTarget => options.target \in Keys(target_graph)
    /\ main_target_name' = IF options.target # NoTarget
                           THEN options.target
                           ELSE target_graph.keys[1]
    /\ pc' = "expand"
    /\ UNCHANGED <<target_graph, workers, options, exit_code, stdout, stderr, built,
                   stack, root_handle, futures, tasks, started, returned>>

\* ------------------------------------------------------------------------
\* SharedMake::make_target (lines 87-141), on the main thread
\* ------------------------------------------------------------------------

\* Mutant: the cache is never consulted
CacheHitNever(name) == FALSE

\* lines 88-90: the name has a handle in self.futures
CacheHit(name) == Cached(name)

\* lines 88-90: return a clone of the cached handle, nothing is created
MakeTargetCached ==
    /\ ProcessAlive /\ HasCall
    /\ CacheHit(CallName)
    /\ Return(stack, futures[CallName])
    /\ UNCHANGED <<target_graph, workers, options, exit_code, stdout, stderr, built,
                   main_target_name, futures, tasks, started, returned>>

\* Mutant: a name that is no key is taken for a target without dependencies
MakeTargetMissingAsLeaf ==
    /\ ProcessAlive /\ HasCall
    /\ ~Cached(CallName)
    /\ CallName \notin Keys(target_graph)
    /\ Len(stack) < MaxStack
    /\ stack' = Append(stack,
                       [target_name |-> CallName,
                        depth |-> CallDepth,
                        dependencies |-> << >>,
                        next |-> 1,
                        dependency_handles |-> << >>])
    /\ UNCHANGED <<target_graph, workers, options, pc, exit_code, stdout,
                   stderr, built, main_target_name, root_handle, futures,
                   tasks, started, returned>>

\* lines 92-96: target_graph.0.get(target_name) is None and expect panics
MakeTargetMissing ==
    /\ ProcessAlive /\ HasCall
    /\ ~CacheHit(CallName)
    /\ CallName \notin Keys(target_graph)
    /\ Exit(ExitPanic, stdout,
            "Internal error: Unexpectedly missing a target")
    /\ UNCHANGED <<target_graph, workers, options, built, main_target_name, stack,
                   root_handle, futures, tasks, started, returned>>

\* lines 92-98: a cache miss opens a frame that holds the cloned dependency
\* list and starts to map over it
MakeTargetEnter ==
    /\ ProcessAlive /\ HasCall
    /\ ~CacheHit(CallName)
    /\ CallName \in Keys(target_graph)
    /\ Len(stack) < MaxStack
    /\ stack' = Append(stack,
                       [target_name |-> CallName,
                        depth |-> CallDepth,
                        dependencies |-> target_graph.deps[CallName],
                        next |-> 1,
                        dependency_handles |-> << >>])
    /\ UNCHANGED <<target_graph, workers, options, pc, exit_code, stdout, stderr,
                   built, main_target_name, root_handle, futures, tasks,
                   started, returned>>

\* line 100: the recursion needs a frame the stack has no room for
StackOverflow ==
    /\ ProcessAlive /\ HasCall
    /\ ~CacheHit(CallName)
    /\ CallName \in Keys(target_graph)
    /\ Len(stack) >= MaxStack
    /\ Exit(ExitOverflow, stdout, "thread 'main' has overflowed its stack")
    /\ UNCHANGED <<target_graph, workers, options, built, main_target_name, stack,
                   root_handle, futures, tasks, started, returned>>

\* lines 106-108: the task as task::spawn creates it
NewTask(frame) ==
    [target_name |-> frame.target_name,
     depth |-> frame.depth,
     dependencies |-> frame.dependencies,
     dependency_handles |-> frame.dependency_handles,
     state |-> "Queued",
     position |-> 0,
     args |-> << >>,
     status |-> "none"]

\* Mutant: the task is spawned and registered without waiting for the map
\* over the dependencies to finish
SpawnTaskEarly ==
    /\ ProcessAlive /\ pc = "expand"
    /\ stack # << >>
    /\ tasks' = Append(tasks, NewTask(Top))
    /\ futures' = [futures EXCEPT ![Top.target_name] = Len(tasks) + 1]
    /\ Return(SubSeq(stack, 1, Len(stack) - 1), Len(tasks) + 1)
    /\ UNCHANGED <<target_graph, workers, options, exit_code, stdout, stderr, built,
                   main_target_name, started, returned>>

\* lines 102-140: every dependency has been requested; spawn the task,
\* insert its handle under the name and return it
SpawnTask ==
    /\ ProcessAlive /\ pc = "expand"
    /\ stack # << >>
    /\ Top.next > Len(Top.dependencies)
    /\ tasks' = Append(tasks, NewTask(Top))
    /\ futures' = [futures EXCEPT ![Top.target_name] = Len(tasks) + 1]
    /\ Return(SubSeq(stack, 1, Len(stack) - 1), Len(tasks) + 1)
    /\ UNCHANGED <<target_graph, workers, options, exit_code, stdout, stderr, built,
                   main_target_name, started, returned>>

\* ------------------------------------------------------------------------
\* The spawned task (lines 108-136) and make_individual_dependency
\* (lines 144-164), on a worker thread
\* ------------------------------------------------------------------------

\* Mutant: the task goes on as soon as one handle has resolved (select, not
\* join)
JoinedAny(i) ==
    \/ tasks[i].dependency_handles = << >>
    \/ \E k \in 1..Len(tasks[i].dependency_handles) :
           tasks[tasks[i].dependency_handles[k]].state = "Completed"

\* line 122: join_all(dependency_handles).await has completed
DependenciesJoined(i) == AllResolved(i)

\* the exit status of the `make` process, which `let _ =` drops (line 158)
Statuses == {"zero", "nonzero"}

\* line 25: options.makefile_path, or its default
MakefilePath == "Makefile"

\* lines 152-155: "-o" and the name, for each dependency in order
RECURSIVE DependencyArgs(_)
DependencyArgs(dependencies) ==
    IF dependencies = << >> THEN << >>
    ELSE <<"-o", Head(dependencies)>> \o DependencyArgs(Tail(dependencies))

\* Mutant: the dependencies are not passed to `make`
MakeArgsTargetOnly(dependencies, target_name) ==
    <<"-f", MakefilePath, target_name>>

\* lines 149-155: the argument vector of `make`
MakeArgs(dependencies, target_name) ==
    <<"-f", MakefilePath, target_name>> \o DependencyArgs(dependencies)

\* line 130: the arguments task i passes to make_individual_dependency
RecipeArgs(i) == MakeArgs(tasks[i].dependencies, tasks[i].target_name)

\* Mutant: set_position(1) is left out
StartRecipeNoProgress(i) ==
    /\ ProcessAlive
    /\ tasks[i].state = "Queued"
    /\ AllResolved(i)
    /\ Busy < workers
    /\ tasks' = [tasks EXCEPT ![i].state = "Running",
                              ![i].args = MakeArgs(tasks[i].dependencies,
                                                   tasks[i].target_name)]
    /\ started' = [started EXCEPT ![tasks[i].target_name] = @ + 1]
    /\ UNCHANGED <<mainVars, returned>>

\* lines 122-130 and 158-161: the dependencies are done, the task takes a
\* worker, calls make_individual_dependency and `make` is launched
StartRecipe(i) ==
    /\ ProcessAlive
    /\ tasks[i].state = "Queued"
    /\ DependenciesJoined(i)
    /\ WorkerFree
    /\ tasks' = [tasks EXCEPT ![i].state = "Running", ![i].position = 1,
                              ![i].args = RecipeArgs(i)]
    /\ started' = [started EXCEPT ![tasks[i].target_name] = @ + 1]
    /\ UNCHANGED <<mainVars, returned>>

\* lines 122-130 and 158-161: as StartRecipe, but `make` cannot be launched
\* and expect("failed to execute process") panics in the task
LaunchFails(i) ==
    /\ ProcessAlive
    /\ tasks[i].state = "Queued"
    /\ DependenciesJoined(i)
    /\ WorkerFree
    /\ tasks' = [tasks EXCEPT ![i].state = "Failed", ![i].position = 1,
                              ![i].args = RecipeArgs(i)]
    /\ started' = [started EXCEPT ![tasks[i].target_name] = @ + 1]
    /\ UNCHANGED <<mainVars, returned>>

\* Mutant: the exit status is inspected and a non-zero one fails the task
RecipeReturnsChecked(i, st) ==
    /\ ProcessAlive
    /\ tasks[i].state = "Running"
    /\ tasks' = [tasks EXCEPT
                    ![i].state = IF st = "zero" THEN "Completed" ELSE "Failed",
                    ![i].position = IF st = "zero" THEN 2 ELSE 1,
                    ![i].status = st]
    /\ returned' = [returned EXCEPT ![tasks[i].target_name] = @ + 1]
    /\ UNCHANGED <<mainVars, started>>

\* lines 158-161 and 131-136: `make` exits with some status, the task
\* completes and its worker is free again
RecipeReturns(i, st) ==
    /\ ProcessAlive
    /\ tasks[i].state = "Running"
    /\ tasks' = [tasks EXCEPT ![i].state = "Completed", ![i].position = 2,
                              ![i].status = st]
    /\ returned' = [returned EXCEPT ![tasks[i].target_name] = @ + 1]
    /\ UNCHANGED <<mainVars, started>>

\* line 122: a handle the task awaits belongs to a task that panicked;
\* polling it panics in turn and the task ends without calling the recipe
AwaitFails(i) ==
    /\ ProcessAlive
    /\ tasks[i].state = "Queued"
    /\ SomeFailed(i)
    /\ WorkerFree
    /\ tasks' = [tasks EXCEPT ![i].state = "Failed"]
    /\ UNCHANGED <<mainVars, started, returned>>

\* ------------------------------------------------------------------------
\* main, lines 69-75
\* ------------------------------------------------------------------------

\* Mutant: main does not wait for the handle it got
RootSpawned == root_handle # NoTask

\* line 69: block_on returns once the root's task has completed
RootDone == tasks[root_handle].state = "Completed"

\* lines 69-75: block_on returns, the summary is printed and main returns
BlockOnReturns ==
    /\ ProcessAlive /\ pc = "block_on"
    /\ RootDone
    /\ built' = FuturesLen
    /\ Exit(ExitOk, "built", stderr)
    /\ UNCHANGED <<target_graph, workers, options, main_target_name, stack,
                   root_handle, futures, tasks, started, returned>>

\* line 69: the root's task panicked, and polling its handle panics in main
BlockOnPanics ==
    /\ ProcessAlive /\ pc = "block_on"
    /\ tasks[root_handle].state = "Failed"
    /\ Exit(ExitPanic, stdout, "task has failed")
    /\ UNCHANGED <<target_graph, workers, options, built, main_target_name, stack,
                   root_handle, futures, tasks, started, returned>>

\* ------------------------------------------------------------------------
\* Specification
\* ------------------------------------------------------------------------

Next ==
    \/ ReadFails
    \/ ParseFails
    \/ ReadMakefile
    \/ PrintGraph
    \/ NoDefaultTarget
    \/ UnknownTarget
    \/ SelectTarget
    \/ MakeTargetCached
    \/ MakeTargetMissing
    \/ MakeTargetEnter
    \/ StackOverflow
    \/ SpawnTask
    \/ \E i \in TaskIds : StartRecipe(i)
    \/ \E i \in TaskIds : LaunchFails(i)
    \/ \E i \in TaskIds, st \in Statuses : RecipeReturns(i, st)
    \/ \E i \in TaskIds : AwaitFails(i)
    \/ BlockOnReturns
    \/ BlockOnPanics

Spec == Init /\ [][Next]_vars

\* The main thread is an OS thread of its own: whatever the tasks do, it keeps
\* taking its next step.
MainStep ==
    \/ ReadFails
    \/ ParseFails
    \/ ReadMakefile
    \/ PrintGraph
    \/ NoDefaultTarget
    \/ UnknownTarget
    \/ SelectTarget
    \/ MakeTargetCached
    \/ MakeTargetMissing
    \/ MakeTargetEnter
    \/ StackOverflow
    \/ SpawnTask
    \/ BlockOnReturns
    \/ BlockOnPanics

FairSpec == Spec /\ WF_vars(MainStep)

\* The runtime keeps its workers busy: while a task can take a worker and
\* start its recipe, or a launched recipe is running, one of these tasks
\* goes on; a launched `make` returns.
TaskStep ==
    \E i \in TaskIds :
        \/ StartRecipe(i)
        \/ \E st \in Statuses : RecipeReturns(i, st)

LiveSpec == Spec /\ WF_vars(MainStep) /\ WF_vars(TaskStep)

\* ------------------------------------------------------------------------
\* Vocabulary of the properties
\* ------------------------------------------------------------------------

\* the direct dependencies of a name, none if it is no key
DepsOf(g, n) == IF n \in Keys(g) THEN Range(g.deps[n]) ELSE {}

RECURSIVE ReachFrom(_, _, _)
ReachFrom(g, S, k) ==
    IF k = 0 THEN S
    ELSE ReachFrom(g, S \cup UNION {DepsOf(g, n) : n \in S}, k - 1)

\* the reflexive-transitive dependency closure of a name
Reach(g, n) == ReachFrom(g, {n}, Cardinality(Names))

\* n is reachable from itself
OnCycle(g, n) == n \in ReachFrom(g, DepsOf(g, n), Cardinality(Names))

\* some target reachable from n lies on a cycle
Cyclic(g, n) == \E m \in Reach(g, n) : OnCycle(g, m)

\* a build of main_target_name has been started
Building == main_target_name # NoTarget

\* the build runs on an acyclic graph
AcyclicBuild == Building /\ ~Cyclic(target_graph, main_target_name)

Closure == Reach(target_graph, main_target_name)

\* build(root) has returned: block_on returned and the summary is printed
BuildReturned == pc = "exited" /\ stdout = "built"

\* the tasks spawned for a name
UnitsOf(n) == {i \in TaskIds : tasks[i].target_name = n}

\* make_individual_dependency has been called in task i
RecipeStarted(i) == tasks[i].position >= 1

\* ------------------------------------------------------------------------
\* Properties
\* ------------------------------------------------------------------------

\* C1: on an acyclic graph, whatever the interleaving, no target has more
\* than one unit and no recipe is started more than once; when build(root)
\* has returned, the recipe of every target reachable from the root has been
\* started once and has returned once.
C1_RecipeOncePerTarget ==
    AcyclicBuild =>
        /\ \A n \in Names :
              /\ Cardinality(UnitsOf(n)) <= 1
              /\ started[n] <= 1
              /\ returned[n] <= started[n]
        /\ BuildReturned =>
              \A n \in Closure : started[n] = 1 /\ returned[n] = 1

\* C1 witness: the diamond a -> {b, c} -> d was built, d's recipe ran once
C1_Witness ==
    /\ target_graph = GDiamond
    /\ main_target_name = "a"
    /\ BuildReturned
    /\ started["d"] = 1 /\ returned["d"] = 1

\* C2: whenever the recipe of a target has been started, each of its direct
\* dependencies has a unit that is Completed and whose recipe has returned.
C2_DependenciesFirst ==
    \A i \in TaskIds :
        RecipeStarted(i) =>
            \A d \in Range(tasks[i].dependencies) :
                /\ Cached(d)
                /\ tasks[futures[d]].state = "Completed"
                /\ returned[d] >= 1

\* C2 witness: the recipe of a target with two distinct dependencies runs
C2_Witness ==
    \E i \in TaskIds :
        /\ tasks[i].state = "Running"
        /\ Cardinality(Range(tasks[i].dependencies)) >= 2

\* C3: when build(root) has returned, the root and every target of its
\* closure have a Completed unit whose recipe has returned, and no unit in
\* the cache is Queued or Running.
C3_ReturnsWhenAllCompleted ==
    BuildReturned =>
        /\ \A n \in Closure :
              /\ Cached(n)
              /\ tasks[futures[n]].state = "Completed"
              /\ returned[n] >= 1
        /\ \A n \in Names :
              Cached(n) => tasks[futures[n]].state = "Completed"

\* C3 witness: the chain a -> b -> c was built and three targets reported
C3_Witness ==
    /\ target_graph = GChain
    /\ main_target_name = "a"
    /\ BuildReturned
    /\ built = 3

\* the targets of the build's closure from which a cycle is reachable
LeadsToCycle == {n \in Closure : Cyclic(target_graph, n)}

\* the build runs on a graph whose root is on, or leads into, a cycle, and
\* every name its expansion can meet is a key
CyclicBuild ==
    /\ Building
    /\ Cyclic(target_graph, main_target_name)
    /\ Closure \subseteq Keys(target_graph)

\* every handle a task awaits belongs to a task spawned before it, so no
\* two units wait on each other
WaitsAreWellFounded ==
    \A i \in TaskIds :
        \A k \in 1..Len(tasks[i].dependency_handles) :
            tasks[i].dependency_handles[k] \in 1..(i - 1)

\* the safety part of C4 (amended)
C4_NoUnitOnCycle ==
    CyclicBuild =>
        /\ pc \in {"expand", "exited"}
        /\ exit_code \in {Alive, ExitOverflow}
        /\ stdout # "built"
        /\ \A n \in LeadsToCycle : ~Cached(n) /\ started[n] = 0
        /\ WaitsAreWellFounded

\* C4 (as stated): the build of a root on or leading into a cycle never
\* terminates, neither with success nor with an error.
C4_CycleNeverTerminates == CyclicBuild => ProcessAlive

\* C4 (amended): the build of a root on or leading into a cycle registers no
\* unit for any target that leads to the cycle, never lets two units wait on
\* each other and never returns from the expansion; the recursion of
\* make_target goes on until the main thread overflows its stack, which ends
\* the process.
C4_CycleOverflowsStack ==
    /\ []C4_NoUnitOnCycle
    /\ (CyclicBuild ~> exit_code = ExitOverflow)

\* C4 witness: the root leads into the cycle b -> c -> b; the unit of the
\* leaf d was spawned and run before the stack overflowed
C4_Witness ==
    /\ target_graph = GLead
    /\ main_target_name = "a"
    /\ exit_code = ExitOverflow
    /\ Len(stack) = MaxStack
    /\ returned["d"] = 1

\* the description file was read and parsed
Parsed ==
    /\ pc # "read"
    /\ stderr \notin {"Could not read Makefile", "Could not parse Makefile"}

\* --target names no key of the graph, or there is neither a --target nor a
\* first key
MalformedRoot ==
    \/ options.target # NoTarget /\ options.target \notin Keys(target_graph)
    \/ options.target = NoTarget /\ target_graph.keys = << >>

NothingBuilt ==
    /\ tasks = << >>
    /\ FuturesLen = 0
    /\ \A n \in Names : started[n] = 0 /\ returned[n] = 0

\* C5: a build request (no --print-graph) with a malformed root never gets
\* to the expansion: the process exits with code 1 and a diagnostic, with no
\* unit created, no task spawned and no recipe invoked.
C5_MalformedRootAborts ==
    (Parsed /\ ~options.print_graph /\ MalformedRoot) =>
        /\ pc \in {"parsed", "exited"}
        /\ pc = "exited" =>
              /\ exit_code = ExitError
              /\ stderr \in {"Unknown target specified",
                   "No target specified and no default target available"}
              /\ stdout = ""
        /\ NothingBuilt

\* C5 witness: an unknown --target on a non-empty graph has ended the process
C5_Witness ==
    /\ pc = "exited"
    /\ ~options.print_graph
    /\ target_graph = GDiamond
    /\ options.target = "z"
    /\ stderr = "Unknown target specified"
    /\ exit_code = ExitError

\* C6: with --print-graph and a parsed description file, the process prints
\* the graph and exits with code 0 without creating a unit or invoking a
\* recipe, whatever the graph and the --target option.
C6_PrintGraphOnly ==
    (Parsed /\ options.print_graph) =>
        /\ pc \in {"parsed", "exited"}
        /\ pc = "exited" =>
              /\ exit_code = ExitOk
              /\ stdout = "graph"
              /\ stderr = ""
        /\ NothingBuilt

\* C6 witness: the graph was printed although --target names no key of it
C6_Witness ==
    /\ pc = "exited"
    /\ options.print_graph
    /\ options.target = "z"
    /\ target_graph = GFan
    /\ stdout = "graph"
    /\ exit_code = ExitOk

\* C7 (as stated): with a parsed graph, the exit code is 1 whenever --target
\* names no key of the graph, or no target is given and the graph is empty,
\* whatever the other options.
C7_MalformedRootExitsOne ==
    (pc = "exited" /\ Parsed /\ MalformedRoot) => exit_code = ExitError

\* C7 (amended): with a parsed graph and a malformed root, the exit code is
\* 1 when --print-graph is not given and 0 when it is given.
C7_MalformedRootExitCode ==
    (pc = "exited" /\ Parsed /\ MalformedRoot) =>
        exit_code = IF options.print_graph THEN ExitOk ELSE ExitError

\* C7 witness: no --target and an empty graph ended in exit code 1
C7_Witness ==
    /\ pc = "exited"
    /\ Parsed
    /\ ~options.print_graph
    /\ options.target = NoTarget
    /\ target_graph = GEmpty
    /\ exit_code = ExitError

\* `make` could not be launched in task i: the task panicked inside
\* make_individual_dependency
LaunchFailed(i) == tasks[i].state = "Failed" /\ tasks[i].status = "none"
                   /\ tasks[i].position = 1

SomeLaunchFailed == \E i \in TaskIds : LaunchFailed(i)

\* task i awaits the handle of task j
Awaits(i, j) == j \in Range(tasks[i].dependency_handles)

\* C8: the exit status of a launched recipe changes nothing. A task whose
\* recipe has returned is Completed whatever the status; a task fails only
\* when its own launch failed or a handle it awaits failed, never because of
\* a status; and when every launch succeeds on an acyclic graph, a returned
\* build has exit code 0, reports the size of the root's closure and has run
\* the recipe of every target of the closure once, dependents of non-zero
\* recipes included.
C8_StatusNotPropagated ==
    /\ \A i \in TaskIds :
          /\ tasks[i].status # "none" => tasks[i].state = "Completed"
          /\ tasks[i].state = "Failed" => LaunchFailed(i) \/ SomeFailed(i)
          /\ RecipeStarted(i) =>
                \A k \in 1..Len(tasks[i].dependency_handles) :
                    tasks[tasks[i].dependency_handles[k]].status # "none"
    /\ (AcyclicBuild /\ BuildReturned) =>
          /\ exit_code = ExitOk
          /\ built = Cardinality(Closure)
          /\ \A n \in Closure : started[n] = 1 /\ returned[n] = 1
    /\ (AcyclicBuild /\ pc = "exited" /\ stdout # "built") =>
          \/ SomeLaunchFailed
          \/ stderr = "Internal error: Unexpectedly missing a target"

\* C8 witness: the build has returned although the recipe of a dependency
\* exited non-zero, and its dependent has run its own recipe
C8_Witness ==
    /\ BuildReturned
    /\ exit_code = ExitOk
    /\ \E i, j \in TaskIds :
          /\ Awaits(i, j)
          /\ tasks[j].status = "nonzero"
          /\ tasks[i].state = "Completed"

\* C9 (as stated): once the launch of a recipe has failed, the process is
\* over: no recipe of any target is started any more and the build does not
\* report success.
C9_LaunchFailureStopsAll ==
    [][SomeLaunchFailed => (started' = started /\ stdout' # "built")]_vars

\* C10 (as stated): nothing limits how many recipes run at once: a unit whose
\* dependencies have all completed can start its recipe whatever the other
\* units are doing.
C10_NoConcurrencyLimit ==
    \A i \in TaskIds :
        (ProcessAlive /\ tasks[i].state = "Queued" /\ AllResolved(i)) =>
            ENABLED StartRecipe(i)

\* C10 (amended): the only limit is the number of worker threads, each held
\* by a task while its recipe runs. While fewer recipes than workers run,
\* every unit whose dependencies have all completed can start its recipe, in
\* any order with respect to the other ready units; every running recipe can
\* return at any time, in any order; never more recipes than workers run.
C10_LimitedByWorkersOnly ==
    /\ Busy <= workers
    /\ \A i \in TaskIds :
          /\ (ProcessAlive /\ tasks[i].state = "Queued" /\ AllResolved(i)
                /\ Busy < workers) => ENABLED StartRecipe(i)
          /\ (ProcessAlive /\ tasks[i].state = "Running") =>
                \A st \in Statuses : ENABLED RecipeReturns(i, st)

\* C10 witness: with two workers, two recipes of mutually independent leaves
\* run at the same time while a further independent leaf is ready and waits
\* for a worker
C10_Witness ==
    /\ target_graph = GFan
    /\ workers = 2 /\ Busy = workers
    /\ \E i, j, k \in TaskIds :
          /\ i < j
          /\ tasks[i].state = "Running" /\ tasks[j].state = "Running"
          /\ tasks[k].state = "Queued" /\ AllResolved(k)
          /\ tasks[k].dependencies = << >>

\* the names that have been given a unit, a cache entry or a recipe call
Touched ==
    {n \in Names : Cached(n) \/ UnitsOf(n) # {} \/ started[n] > 0}
    \cup {stack[k].target_name : k \in 1..Len(stack)}

\* C11: on an acyclic graph only targets of the root's closure are ever
\* expanded, given a unit or built, and the count reported when build(root)
\* returns is the number of distinct targets of the closure, each of which
\* has exactly one entry in the cache.
C11_CountIsClosureSize ==
    AcyclicBuild =>
        /\ Touched \subseteq Closure
        /\ BuildReturned =>
              /\ built = Cardinality(Closure)
              /\ {n \in Names : Cached(n)} = Closure

\* C11 witness: the default target b of a graph whose keys a is unreachable
\* from b was built: two targets reported, nothing done for a
C11_Witness ==
    /\ target_graph = GUnreach
    /\ options.target = NoTarget
    /\ BuildReturned
    /\ built = 2
    /\ ~Cached("a") /\ started["a"] = 0

\* C12: during the expansion of an acyclic graph, a target that has a handle
\* in the cache has a handle there for each of its direct dependencies, and
\* so for every target of its closure; these units may be in any state.
C12_DependenciesRegisteredFirst ==
    AcyclicBuild =>
        \A n \in Names :
            Cached(n) =>
                /\ n \in Keys(target_graph)
                /\ \A d \in Reach(target_graph, n) : Cached(d)
                /\ \A k \in 1..Len(target_graph.deps[n]) :
                      /\ Len(tasks[futures[n]].dependency_handles) >= k
                      /\ tasks[futures[n]].dependency_handles[k]
                            = futures[target_graph.deps[n][k]]

\* C12 witness: a target is registered while the unit of one of its
\* dependencies is still Queued and that of another is Running
C12_Witness ==
    \E n \in Names :
        /\ Cached(n)
        /\ \E d \in DepsOf(target_graph, n) :
              tasks[futures[d]].state = "Queued"
        /\ \E d \in DepsOf(target_graph, n) :
              tasks[futures[d]].state = "Running"

\* the names whose cache-miss check is done and whose handle is not inserted
\* yet: those of the open frames of make_target
Pending == {stack[k].target_name : k \in 1..Len(stack)}

\* no name is being expanded twice, no name being expanded has an entry,
\* and the name about to be checked is not being expanded
C13_NoCheckBetweenMissAndInsert ==
    /\ \A j, k \in 1..Len(stack) :
          stack[j].target_name = stack[k].target_name => j = k
    /\ \A n \in Pending : ~Cached(n)
    /\ HasCall => CallName \notin Pending

\* an entry of the cache is never replaced or removed
C13_EntriesKept == \A n \in Names : Cached(n) => futures'[n] = futures[n]

\* a request for a cached name hands the cached handle to its caller and
\* creates nothing
C13_HitReturnsCachedHandle ==
    (HasCall /\ Cached(CallName) /\ stack' # stack) =>
        /\ Len(stack') = Len(stack)
        /\ stack'[Len(stack)].dependency_handles
              = Append(Top.dependency_handles, futures[CallName])
        /\ tasks' = tasks
        /\ futures' = futures

\* C13: on an acyclic graph the cache is write-once per key: an entry is
\* never replaced or removed, a request for a cached name returns the cached
\* handle and spawns nothing, and between the cache miss of a name and the
\* insertion of its handle no request for that name checks the cache.
C13_CacheWriteOnce ==
    /\ [](AcyclicBuild => C13_NoCheckBetweenMissAndInsert)
    /\ [][AcyclicBuild => (C13_EntriesKept /\ C13_HitReturnsCachedHandle)]_vars

\* C13 witness: both requests of b made for a: [b, b] have returned the same
\* handle, the second one from the cache
C13_Witness ==
    /\ target_graph = GDup
    /\ stack # << >>
    /\ Top.target_name = "a"
    /\ Len(Top.dependency_handles) = 2
    /\ Top.dependency_handles[1] = Top.dependency_handles[2]
    /\ Len(tasks) = 1

\* the position of each indicator fits the state of its unit
C14_PositionFitsState ==
    \A i \in TaskIds :
        /\ tasks[i].position \in 0..2
        /\ tasks[i].state = "Queued" => tasks[i].position = 0
        /\ tasks[i].state = "Running" => tasks[i].position = 1
        /\ tasks[i].state = "Completed" => tasks[i].position = 2
        /\ tasks[i].position >= 1 => AllResolved(i)
        /\ tasks[i].position >= 1 => started[tasks[i].target_name] >= 1
        /\ tasks[i].position = 2 => returned[tasks[i].target_name] >= 1

\* an indicator comes with its unit, at position 0, in the step that
\* registers the unit, and then moves one position forward at a time
C14_PositionSteps ==
    /\ Len(tasks') >= Len(tasks)
    /\ \A i \in TaskIds :
          /\ tasks'[i].position \in {tasks[i].position, tasks[i].position + 1}
          /\ tasks'[i].target_name = tasks[i].target_name
    /\ \A i \in (1..Len(tasks')) \ TaskIds :
          /\ tasks'[i].position = 0
          /\ futures[tasks'[i].target_name] = NoTask
          /\ futures'[tasks'[i].target_name] = i

DepsSeq(g, n) == IF n \in Keys(g) THEN g.deps[n] ELSE << >>

\* Depth-first walk from n at depth d that marks a name with the depth of
\* its first visit and then walks its dependency list in stored order;
\* seen[m] is the mark of m, -1 while m is unvisited.
RECURSIVE Discover(_, _, _, _)
RECURSIVE DiscoverList(_, _, _, _)
Discover(g, n, d, seen) ==
    IF seen[n] # -1 THEN seen
    ELSE DiscoverList(g, DepsSeq(g, n), d + 1, [seen EXCEPT ![n] = d])
DiscoverList(g, deps, d, seen) ==
    IF deps = << >> THEN seen
    ELSE DiscoverList(g, Tail(deps), d, Discover(g, Head(deps), d, seen))

FirstDepth ==
    Discover(target_graph, main_target_name, 0, [n \in Names |-> -1])

\* the targets at the end of a dependency path of length k from r
RECURSIVE Level(_, _, _)
Level(g, r, k) ==
    IF k = 0 THEN {r} ELSE UNION {DepsOf(g, m) : m \in Level(g, r, k - 1)}

\* the depths at which n is reachable from r
DepthsOf(g, r, n) == {k \in 0..Cardinality(Names) : n \in Level(g, r, k)}

\* C15: on an acyclic graph the depth of a unit, from which its indentation
\* is derived, is the depth at which the depth-first expansion in stored
\* order first meets the target (root 0, a dependency one more than its
\* requester), one of the depths at which the target is reachable; requests
\* met later at other depths leave it as it is.
C15_DepthOfFirstDiscovery ==
    AcyclicBuild =>
        /\ \A i \in TaskIds :
              /\ tasks[i].depth = FirstDepth[tasks[i].target_name]
              /\ tasks[i].depth \in DepthsOf(target_graph, main_target_name,
                                             tasks[i].target_name)
        /\ \A k \in 1..Len(stack) :
              stack[k].depth = FirstDepth[stack[k].target_name]

\* C15 witness: c is reachable at depths 1, 2 and 3 and its unit, first met
\* through b, has depth 2 after the whole build
C15_Witness ==
    /\ target_graph = GDepthMid
    /\ main_target_name = "a"
    /\ BuildReturned
    /\ DepthsOf(target_graph, "a", "c") = {1, 2, 3}
    /\ tasks[futures["c"]].depth = 2

\* C16: the recipe of a target is invoked with the target's name and, after
\* it, exactly the target's dependency list of the graph: one "-o" and one
\* name per entry, in the order of the list, and nothing else; a leaf gets
\* no "-o" at all. No arguments exist before the invocation.
C16_RecipeGetsDirectDependencies ==
    \A i \in TaskIds :
        LET a == tasks[i].args
            deps == DepsSeq(target_graph, tasks[i].target_name)
        IN  IF RecipeStarted(i)
            THEN /\ Len(a) = 3 + 2 * Len(deps)
                 /\ a[1] = "-f"
                 /\ a[3] = tasks[i].target_name
                 /\ \A k \in 1..Len(deps) :
                       /\ a[2 * k + 2] = "-o"
                       /\ a[2 * k + 3] = deps[k]
            ELSE a = << >>

\* C16 witness: the recipe of c, whose list is [e, d], runs with
\* -f Makefile c -o e -o d
C16_Witness ==
    /\ target_graph = GTwoChains
    /\ Cached("c")
    /\ tasks[futures["c"]].state = "Running"
    /\ tasks[futures["c"]].args
          = <<"-f", "Makefile", "c", "-o", "e", "-o", "d">>

\* the names of the build's closure that are no keys of the graph
MissingNames == Closure \ Keys(target_graph)

\* the targets of the closure that reference a missing name, directly or
\* through their dependencies
LeadsToMissing ==
    {n \in Closure \cap Keys(target_graph) :
        Reach(target_graph, n) \cap MissingNames # {}}

\* the names of the open frames of make_target, outermost first
RequestPath == [k \in 1..Len(stack) |-> stack[k].target_name]

\* C17: when the root is a key and the expansion of an acyclic graph can
\* meet a dependency name that is no key, no target that leads to that name
\* (the one that lists it and all its ancestors) is ever registered or
\* built, the missing name gets no unit, the build never gets to block_on
\* and never reports success, and the process can only end by the panic of
\* make_target, raised on the request of the missing name.
C17_MissingDependencyAborts ==
    (AcyclicBuild /\ MissingNames # {}) =>
        /\ \A n \in LeadsToMissing \cup MissingNames :
              /\ ~Cached(n)
              /\ UnitsOf(n) = {}
              /\ started[n] = 0
        /\ pc \in {"expand", "exited"}
        /\ stdout # "built"
        /\ pc = "exited" =>
              /\ exit_code = ExitPanic
              /\ stderr = "Internal error: Unexpectedly missing a target"
              /\ CallName \in MissingNames
              /\ \A n \in Range(RequestPath) : n \in LeadsToMissing

\* C17 witness: the request of z, listed by c, has ended the process while
\* a and c were being expanded; the recipe of the sibling b had already run
C17_Witness ==
    /\ target_graph = GMissing
    /\ main_target_name = "a"
    /\ exit_code = ExitPanic
    /\ RequestPath = <<"a", "c">>
    /\ CallName = "z"
    /\ returned["b"] = 1

\* the build runs on an acyclic graph all of whose dependency names are keys
WellFormedBuild == AcyclicBuild /\ Closure \subseteq Keys(target_graph)

\* build(root) has returned with every unit Completed
BuildCompleted ==
    /\ BuildReturned
    /\ exit_code = ExitOk
    /\ \A i \in TaskIds : tasks[i].state = "Completed"
    /\ \A n \in Closure : Cached(n)

\* workers are held by running recipes only, whose dependencies are done,
\* and while the build is under way and no launch has failed, the main
\* thread or some task can take a step
C18_NeverStuck ==
    WellFormedBuild =>
        /\ \A i \in TaskIds : tasks[i].state = "Running" => AllResolved(i)
        /\ (ProcessAlive /\ ~SomeLaunchFailed) =>
              (ENABLED MainStep) \/ (ENABLED TaskStep)

\* C18: on an acyclic graph whose names are all keys, with any number of
\* workers from one up, a unit that waits for its dependency handles holds
\* no worker and the build is never stuck; if the main thread keeps running,
\* ready tasks get free workers and launched recipes return, then build(root)
\* eventually returns with every unit Completed, unless the launch of a
\* recipe fails.
C18_BuildTerminates ==
    /\ []C18_NeverStuck
    /\ (WellFormedBuild ~> (BuildCompleted \/ SomeLaunchFailed))

\* C18 witness: with a single worker, the diamond was built to the end
C18_Witness ==
    /\ workers = 1
    /\ target_graph = GDiamond
    /\ main_target_name = "a"
    /\ BuildCompleted
    /\ built = 4

====
